---- MODULE Spec2Model ----
(***************************************************************************)
(* LLM quiz generator (QGtestrun3.py, QGtestrun4.py).                      *)
(*                                                                         *)
(* QGtestrun4.py: generate_unique_questions over-requests candidates,      *)
(* parses them with _parse_questions, filters them against the             *)
(* resume_history table, stores the accepted ones, and main() scores the   *)
(* answers.  QGtestrun3.py: generate_quiz returns raw text that            *)
(* parse_quiz_output parses with one regular expression.                   *)
(*                                                                         *)
(* A generated text is a sequence of blocks, one per Q<digits>. marker;    *)
(* a block is the sequence of its lines after block.strip(); a line is a   *)
(* tag ("txt" for a plain line, "A)".."D)" for an option line, "Answer:"   *)
(* for an answer line) and its payload.  Payloads carry no ")" and no ":"  *)
(* and no surrounding whitespace.                                          *)
(***************************************************************************)
EXTENDS Integers, Sequences, FiniteSets, Bags, TLC

VARIABLES
    sess,            \* slot -> the local state of the main() run in that slot (QGtestrun4)
    resume_history,  \* table resume_history: bag of <<resume_id, question>> rows
    quiz_questions,  \* table quiz_questions: set of rows (tagged with the run that wrote them)
    quiz_attempts,   \* table quiz_attempts: sequence of rows in insertion order
    runs,            \* number of main() runs started so far
    overlap,         \* resume_id -> two runs for that resume_id have been active together
    ptext,           \* parser harness: the raw text under test
    pres4,           \* parser harness: outcome of QuizGenerator._parse_questions
    pres3,           \* parser harness: outcome of parse_quiz_output
    v3               \* the state of the main() run of QGtestrun3

vars == <<sess, resume_history, quiz_questions, quiz_attempts, runs, overlap,
          ptext, pres4, pres3, v3>>

-----------------------------------------------------------------------------
(* Bounds *)

MaxBlocks == 3      \* blocks in a generated text
MaxN == 2           \* largest requested num_questions
RunIds == {1, 2}    \* the main() runs of one behaviour

-----------------------------------------------------------------------------
(* Raw text *)

Line(tag, val) == [tag |-> tag, val |-> val]

OptTags == <<"A)", "B)", "C)", "D)">>

Letters == {"A", "B", "C", "D"}

\* The six lines the prompt's format asks for.
FormatLines(stem, ans) ==
    <<Line("txt", stem),
      Line("A)", stem \o "a"), Line("B)", stem \o "b"),
      Line("C)", stem \o "c"), Line("D)", stem \o "d"),
      Line("Answer:", ans)>>

RemoveAt(s, k) == [j \in 1..(Len(s) - 1) |-> IF j < k THEN s[j] ELSE s[j + 1]]

Shapes == {"ok", "nostem", "noB", "noD", "noanswer", "badanswer", "lower"}

\* A block of the given shape: well formed, or with one part missing or invalid.
Block(no, stem, shape) ==
    [no |-> no,
     lines |->
        CASE shape = "ok"        -> FormatLines(stem, "B")
          [] shape = "nostem"    -> RemoveAt(FormatLines(stem, "B"), 1)
          [] shape = "noB"       -> RemoveAt(FormatLines(stem, "B"), 3)
          [] shape = "noD"       -> RemoveAt(FormatLines(stem, "B"), 5)
          [] shape = "noanswer"  -> RemoveAt(FormatLines(stem, "B"), 6)
          [] shape = "badanswer" -> FormatLines(stem, "E")
          [] shape = "lower"     -> FormatLines(stem, "b")]

-----------------------------------------------------------------------------
(* QGtestrun4.py: QuizGenerator._parse_questions *)

LineText(l) == IF l.tag = "txt" THEN l.val ELSE l.tag \o " " \o l.val

\* lines[k].split(")", 1)[1] exists
HasParen(l) == l.tag \in {"A)", "B)", "C)", "D)"}

\* lines[5].split(":")[1] exists
HasColon(l) == l.tag = "Answer:"

\* One iteration of the loop over blocks[1:] raises IndexError.
BlockRaises(lines) ==
    \/ Len(lines) < 6
    \/ \E k \in 2..5 : ~HasParen(lines[k])
    \/ ~HasColon(lines[6])

ParseBlock(lines) ==
    [question |-> LineText(lines[1]),
     A |-> lines[2].val, B |-> lines[3].val,
     C |-> lines[4].val, D |-> lines[5].val,
     correct |-> lines[6].val]

RECURSIVE ParseBlocks(_, _)
ParseBlocks(text, acc) ==
    IF text = <<>> THEN [raised |-> FALSE, questions |-> acc]
    ELSE IF BlockRaises(Head(text).lines) THEN [raised |-> TRUE, questions |-> <<>>]
    ELSE ParseBlocks(Tail(text), Append(acc, ParseBlock(Head(text).lines)))

\* The call's outcome: an IndexError, or the list of question dicts.
ParseQuestions(text) == ParseBlocks(text, <<>>)

-----------------------------------------------------------------------------
(* QGtestrun3.py: parse_quiz_output *)

\* The text as the regular expression sees it: markers and payloads in a row.
\* sep is the whitespace in front of the token.
Tok(t, v, sep) == [t |-> t, v |-> v, sep |-> sep]

LineToks(l, sep) ==
    IF l.tag = "txt" THEN <<Tok("txt", l.val, sep)>>
    ELSE <<Tok(l.tag, "", sep), Tok("txt", l.val, " ")>>

RECURSIVE LinesToks(_, _)
LinesToks(lines, sep) ==
    IF lines = <<>> THEN <<>>
    ELSE LineToks(Head(lines), sep) \o LinesToks(Tail(lines), "\n")

RECURSIVE Flatten(_)
Flatten(text) ==
    IF text = <<>> THEN <<>>
    ELSE <<Tok("Q", Head(text).no, "\n")>> \o LinesToks(Head(text).lines, " ")
         \o Flatten(Tail(text))

TokText(k) == IF k.t = "Q" THEN "Q" \o ToString(k.v) \o "."
              ELSE IF k.t = "txt" THEN k.v ELSE k.t

RECURSIVE Join(_)
Join(span) ==
    IF span = <<>> THEN ""
    ELSE IF Len(span) = 1 THEN TokText(span[1])
    ELSE TokText(span[1]) \o span[2].sep \o Join(Tail(span))

\* (.*?) between two markers, stripped
Between(toks, i, j) == Join(SubSeq(toks, i + 1, j - 1))

\* The first token at or after from with tag t, 0 when there is none.
NextTok(toks, from, t) ==
    LET hits == {j \in from..Len(toks) : toks[j].t = t}
    IN IF from = 0 \/ hits = {} THEN 0
       ELSE CHOOSE j \in hits : \A h \in hits : j <= h

\* Answer:\s*([A-D]) : the character after the marker is one of A-D
AnswerLetter(toks, j) ==
    IF j + 1 > Len(toks) THEN ""
    ELSE IF toks[j + 1].t \in {"A)", "B)", "C)", "D)"}
         THEN CHOOSE c \in Letters : c \o ")" = toks[j + 1].t
    ELSE IF toks[j + 1].t = "txt" /\ toks[j + 1].v \in Letters THEN toks[j + 1].v
    ELSE ""

NextAnswer(toks, from) ==
    LET hits == {j \in from..Len(toks) :
                    toks[j].t = "Answer:" /\ AnswerLetter(toks, j) # ""}
    IN IF from = 0 \/ hits = {} THEN 0
       ELSE CHOOSE j \in hits : \A h \in hits : j <= h

\* The match of the pattern that starts at the marker toks[i]: every group is
\* lazy, so each marker is the first one after the previous group.
MatchAt(toks, i) ==
    LET a == NextTok(toks, i + 1, "A)")
        b == IF a = 0 THEN 0 ELSE NextTok(toks, a + 1, "B)")
        c == IF b = 0 THEN 0 ELSE NextTok(toks, b + 1, "C)")
        d == IF c = 0 THEN 0 ELSE NextTok(toks, c + 1, "D)")
        n == IF d = 0 THEN 0 ELSE NextAnswer(toks, d + 1)
    IN IF n = 0 THEN [found |-> FALSE]
       ELSE [found |-> TRUE, end |-> n + 1,
             q |-> [question_no |-> toks[i].v,
                    question |-> Between(toks, i, a),
                    A |-> Between(toks, a, b), B |-> Between(toks, b, c),
                    C |-> Between(toks, c, d), D |-> Between(toks, d, n),
                    answer |-> AnswerLetter(toks, n)]]

RECURSIVE FindAll(_, _)
\* re.findall: non-overlapping matches, scanning from position i
FindAll(toks, i) ==
    IF i > Len(toks) THEN <<>>
    ELSE IF toks[i].t = "Q" /\ MatchAt(toks, i).found
         THEN <<MatchAt(toks, i).q>> \o FindAll(toks, MatchAt(toks, i).end + 1)
    ELSE FindAll(toks, i + 1)

ParseQuizOutput(text) == FindAll(Flatten(text), 1)

-----------------------------------------------------------------------------
(* QGtestrun4.py: inputs of main() and the generated text *)

Slots == DOMAIN sess

ResumeIds == {1, 2}

Skills == {"Algorithms", "Unknown"}

\* The skill typed in the runs that go on to the filter and the quiz.
QuizSkills == {"Algorithms"}

Level == "Beginner"

\* Database.get_content_for_skill: the Content rows of the skill joined with " ";
\* the skill "Unknown" has no row in skill_set.
GetContentForSkill(skill) ==
    IF skill = "Algorithms" THEN "Binary search operates on sorted arrays" ELSE ""

Stems == {"S1", "S2", "S3"}

\* The blocks the generator can emit as block number no.
GenBlocks(no) ==
    {Block(no, "S1", "ok"), Block(no, "S2", "ok"), Block(no, "S3", "lower"),
     Block(no, "S1", "noD")}

\* response.text: any text of at most MaxBlocks blocks, numbered Q1, Q2, ...
GenTexts ==
    UNION {{t \in [1..n -> UNION {GenBlocks(no) : no \in 1..n}] :
                \A no \in 1..n : t[no] \in GenBlocks(no)} : n \in 0..MaxBlocks}

\* What the examinee can type at "Your answer: ", as characters.
Inputs == {<<"b">>, <<" ", "a">>}

RECURSIVE LStrip(_)
LStrip(cs) == IF cs # <<>> /\ Head(cs) = " " THEN LStrip(Tail(cs)) ELSE cs

RECURSIVE RStrip(_)
RStrip(cs) ==
    IF cs # <<>> /\ cs[Len(cs)] = " " THEN RStrip(SubSeq(cs, 1, Len(cs) - 1)) ELSE cs

\* str.strip()
Strip(cs) == RStrip(LStrip(cs))

UpperChar(c) ==
    CASE c = "a" -> "A" [] c = "b" -> "B" [] c = "c" -> "C" [] c = "d" -> "D"
      [] OTHER -> c

\* str.upper()
Upper(cs) == [j \in 1..Len(cs) |-> UpperChar(cs[j])]

RECURSIVE Str(_)
\* the characters as one string
Str(cs) == IF cs = <<>> THEN "" ELSE Head(cs) \o Str(Tail(cs))

\* input("Your answer: ").strip().upper()
ReadAnswer(inp) == Str(Upper(Strip(inp)))

NotEnough == "Not enough unique questions found. Try again."

-----------------------------------------------------------------------------
(* QGtestrun4.py: the local state of one main() run *)

Idle ==
    [pc |-> "idle", run |-> 0, resume_id |-> 0, skill |-> "", num_q |-> 0,
     content |-> "", prompt_n |-> 0, generated |-> FALSE, text |-> <<>>,
     parsed |-> <<>>, i |-> 0, final_qs |-> <<>>, q_no |-> 0, rejected |-> <<>>,
     qs |-> [kind |-> "none"], correct_count |-> 0, k |-> 0, answers |-> <<>>,
     error |-> "",
     hist0 |-> {},       \* the questions in resume_history for resume_id when the run started
     prev_error |-> ""]  \* how the run before this one ended

Active(p) == sess[p].pc \notin {"idle", "complete", "crashed"}

\* Variant: the loop has no break.
LoopHeadNoBreak(parsed, i, final_qs, num_questions) ==
    IF i > Len(parsed) THEN "filter_done" ELSE "check"

\* The for loop's head (lines 164-166): the next candidate is examined unless
\* the pool is exhausted or num_questions have been accepted.
LoopHead(parsed, i, final_qs, num_questions) ==
    IF i > Len(parsed) THEN "filter_done"
    ELSE IF Len(final_qs) = num_questions THEN "filter_done"
    ELSE "check"

\* Database.question_used_before
QuestionUsedBefore(resume_id, question) ==
    BagIn(<<resume_id, question>>, resume_history)

\* The questions resume_history holds for resume_id.
UsedQuestions(resume_id) ==
    {row[2] : row \in {x \in BagToSet(resume_history) : x[1] = resume_id}}

\* Variant: the skill is passed where the question text belongs.
UsedRowSkill(resume_id, question) == <<resume_id, "Algorithms">>

\* Variant: a fixed resume_id is written.
UsedRowFixedId(resume_id, question) == <<1, question>>

\* The row Database.store_used_question inserts.
UsedRow(resume_id, question) == <<resume_id, question>>

\* The row Database.store_question inserts (run and resume_id tell the rows of
\* one run from another's; the table itself does not hold them).
QuestionRow(s, q) ==
    [run |-> s.run, resume_id |-> s.resume_id, question_no |-> q.question_no,
     skill |-> q.skill, mode |-> q.mode, question |-> q.question,
     correct |-> q.correct]

\* Variant: the candidate's position in the pool is its number.
QuestionNoByPosition(s) == s.i

\* The display number of the question being accepted (line 169).
QuestionNo(s) == s.q_no

\* Variant: the question is stored before the history row.
StoreOrderSwapped == <<"store_question", "store_used">>

\* The two writes of an acceptance, in program order (lines 173 and 174).
StoreOrder == <<"store_used", "store_question">>

\* Where the run goes after the write named w: to the second write, or on to
\* q_no += 1 and the loop's head.
AfterStore(s, w) ==
    IF w = StoreOrder[1]
    THEN [s EXCEPT !.pc = StoreOrder[2]]
    ELSE [s EXCEPT !.q_no = s.q_no + 1,
                   !.i = s.i + 1,
                   !.pc = LoopHead(s.parsed, s.i + 1, s.final_qs, s.num_q)]

\* q["question_no"] = q_no; q["skill"] = skill; q["mode"] = level
Numbered(q, q_no, skill) ==
    [question_no |-> q_no, skill |-> skill, mode |-> Level,
     question |-> q.question, A |-> q.A, B |-> q.B, C |-> q.C, D |-> q.D,
     correct |-> q.correct]

\* Variant: only an empty list is reported as a shortfall.
FilterResultEmptyOnly(final_qs, num_questions) ==
    IF Len(final_qs) = 0
    THEN [kind |-> "str", val |-> NotEnough]
    ELSE [kind |-> "list", val |-> final_qs]

\* What generate_unique_questions returns (lines 177-180).
FilterResult(final_qs, num_questions) ==
    IF Len(final_qs) < num_questions
    THEN [kind |-> "str", val |-> NotEnough]
    ELSE [kind |-> "list", val |-> final_qs]

\* ans == q["correct"]
IsCorrect(ans, q) == ans = q.correct

HarnessUnchanged == UNCHANGED <<ptext, pres4, pres3, v3>>

\* Two runs for one resume_id are active together.
OverlapNow(s) ==
    [r \in ResumeIds |->
        \E p1, p2 \in DOMAIN s :
            /\ p1 # p2
            /\ s[p1].pc \notin {"idle", "complete", "crashed"}
            /\ s[p2].pc \notin {"idle", "complete", "crashed"}
            /\ s[p1].resume_id = r /\ s[p2].resume_id = r]

-----------------------------------------------------------------------------
(* QGtestrun4.py: main() and generate_unique_questions, step by step *)

\* main, lines 196-199: the inputs are read.
Start(p) ==
    /\ ~Active(p)
    /\ runs + 1 \in RunIds
    /\ \E r \in ResumeIds, sk \in QuizSkills, n \in 1..MaxN :
          LET s == [Idle EXCEPT !.pc = "created", !.run = runs + 1,
                                !.resume_id = r, !.skill = sk, !.num_q = n,
                                !.hist0 = UsedQuestions(r),
                                !.prev_error = sess[p].error]
          IN /\ sess' = [sess EXCEPT ![p] = s]
             /\ overlap' = [e \in ResumeIds |->
                               overlap[e] \/ OverlapNow([sess EXCEPT ![p] = s])[e]]
    /\ runs' = runs + 1
    /\ UNCHANGED <<resume_history, quiz_questions, quiz_attempts>>
    /\ HarnessUnchanged

\* line 154
FetchContent(p) ==
    /\ sess[p].pc = "created"
    /\ sess' = [sess EXCEPT ![p].content = GetContentForSkill(sess[p].skill),
                            ![p].pc = "content_fetched"]
    /\ UNCHANGED <<resume_history, quiz_questions, quiz_attempts, runs, overlap>>
    /\ HarnessUnchanged

\* lines 156-158: the prompt asks for num_questions * 2 questions; the model
\* answers with any text.
Generate(p) ==
    /\ sess[p].pc = "content_fetched"
    /\ \E t \in GenTexts :
          sess' = [sess EXCEPT ![p].prompt_n = sess[p].num_q * 2,
                               ![p].generated = TRUE,
                               ![p].text = t,
                               ![p].pc = "generated"]
    /\ UNCHANGED <<resume_history, quiz_questions, quiz_attempts, runs, overlap>>
    /\ HarnessUnchanged

\* lines 159-162: an IndexError of _parse_questions ends the process.
Parse(p) ==
    /\ sess[p].pc = "generated"
    /\ LET r == ParseQuestions(sess[p].text)
       IN sess' = IF r.raised
                  THEN [sess EXCEPT ![p].pc = "crashed", ![p].error = "IndexError"]
                  ELSE [sess EXCEPT ![p].parsed = r.questions,
                                    ![p].final_qs = <<>>,
                                    ![p].q_no = 1,
                                    ![p].i = 1,
                                    ![p].pc = LoopHead(r.questions, 1, <<>>,
                                                       sess[p].num_q)]
    /\ UNCHANGED <<resume_history, quiz_questions, quiz_attempts, runs, overlap>>
    /\ HarnessUnchanged

\* lines 168-172: the history is read; a new question is numbered and appended.
CheckUsed(p) ==
    /\ sess[p].pc = "check"
    /\ LET s == sess[p]
           q == s.parsed[s.i]
       IN sess' = IF QuestionUsedBefore(s.resume_id, q.question)
                  THEN [sess EXCEPT ![p].rejected = Append(s.rejected, s.i),
                                    ![p].i = s.i + 1,
                                    ![p].pc = LoopHead(s.parsed, s.i + 1, s.final_qs,
                                                       s.num_q)]
                  ELSE [sess EXCEPT ![p].final_qs =
                                        Append(s.final_qs,
                                               Numbered(q, QuestionNo(s), s.skill)),
                                    ![p].pc = StoreOrder[1]]
    /\ UNCHANGED <<resume_history, quiz_questions, quiz_attempts, runs, overlap>>
    /\ HarnessUnchanged

\* line 173
StoreUsedQuestion(p) ==
    /\ sess[p].pc = "store_used"
    /\ LET s == sess[p]
           q == s.final_qs[Len(s.final_qs)]
       IN resume_history' =
              resume_history (+) SetToBag({UsedRow(s.resume_id, q.question)})
    /\ sess' = [sess EXCEPT ![p] = AfterStore(sess[p], "store_used")]
    /\ UNCHANGED <<quiz_questions, quiz_attempts, runs, overlap>>
    /\ HarnessUnchanged

\* line 174
StoreQuestion(p) ==
    /\ sess[p].pc = "store_question"
    /\ LET s == sess[p]
           q == s.final_qs[Len(s.final_qs)]
       IN quiz_questions' = quiz_questions \cup {QuestionRow(s, q)}
    /\ sess' = [sess EXCEPT ![p] = AfterStore(sess[p], "store_question")]
    /\ UNCHANGED <<resume_history, quiz_attempts, runs, overlap>>
    /\ HarnessUnchanged

\* lines 177-180 and main, lines 201-204
FilterReturn(p) ==
    /\ sess[p].pc = "filter_done"
    /\ sess' = [sess EXCEPT ![p].qs = FilterResult(sess[p].final_qs, sess[p].num_q),
                            ![p].correct_count = 0,
                            ![p].k = 1,
                            ![p].pc = "quiz"]
    /\ UNCHANGED <<resume_history, quiz_questions, quiz_attempts, runs, overlap>>
    /\ HarnessUnchanged

\* main, lines 206-215: one iteration of "for q in qs".  Over the message
\* string, q is a character and q['question_no'] raises TypeError.
Ask(p) ==
    /\ sess[p].pc = "quiz"
    /\ sess[p].k <= Len(sess[p].qs.val)
    /\ LET s == sess[p]
       IN IF s.qs.kind = "str"
          THEN sess' = [sess EXCEPT ![p].pc = "crashed", ![p].error = "TypeError"]
          ELSE \E inp \in Inputs :
                  sess' = [sess EXCEPT
                              ![p].answers = Append(s.answers, inp),
                              ![p].correct_count =
                                  IF IsCorrect(ReadAnswer(inp), s.qs.val[s.k])
                                  THEN s.correct_count + 1 ELSE s.correct_count,
                              ![p].k = s.k + 1]
    /\ UNCHANGED <<resume_history, quiz_questions, quiz_attempts, runs, overlap>>
    /\ HarnessUnchanged

\* The row Database.store_score inserts.
AttemptRow(s) ==
    [run |-> s.run, resume_id |-> s.resume_id, skill |-> s.skill, mode |-> Level,
     total_questions |-> s.num_q, correct_answers |-> s.correct_count]

\* main, lines 217-225
StoreScore(p) ==
    /\ sess[p].pc = "quiz"
    /\ sess[p].k > Len(sess[p].qs.val)
    /\ quiz_attempts' = Append(quiz_attempts, AttemptRow(sess[p]))
    /\ sess' = [sess EXCEPT ![p].pc = "complete"]
    /\ UNCHANGED <<resume_history, quiz_questions, runs, overlap>>
    /\ HarnessUnchanged

\* The process is interrupted inside the filter loop.
Kill(p) ==
    /\ sess[p].pc \in {"check", "store_used", "store_question"}
    /\ sess' = [sess EXCEPT ![p].pc = "crashed", ![p].error = "killed"]
    /\ UNCHANGED <<resume_history, quiz_questions, quiz_attempts, runs, overlap>>
    /\ HarnessUnchanged

-----------------------------------------------------------------------------
(* One run of main() at a time *)

Init ==
    /\ sess = [p \in {1} |-> Idle]
    /\ resume_history = EmptyBag
    /\ quiz_questions = {}
    /\ quiz_attempts = <<>>
    /\ runs = 0
    /\ overlap = [r \in ResumeIds |-> FALSE]
    /\ ptext = <<>>
    /\ pres4 = [done |-> FALSE]
    /\ pres3 = [done |-> FALSE]
    /\ v3 = [pc |-> "off"]

Next ==
    \/ \E p \in Slots : Start(p)
    \/ \E p \in Slots : FetchContent(p)
    \/ \E p \in Slots : Generate(p)
    \/ \E p \in Slots : Parse(p)
    \/ \E p \in Slots : CheckUsed(p)
    \/ \E p \in Slots : StoreUsedQuestion(p)
    \/ \E p \in Slots : StoreQuestion(p)
    \/ \E p \in Slots : FilterReturn(p)
    \/ \E p \in Slots : Ask(p)
    \/ \E p \in Slots : StoreScore(p)

Spec == Init /\ [][Next]_vars

-----------------------------------------------------------------------------
(* One run at a time, interrupted at any point of the filter loop *)

NextCrash ==
    \/ \E p \in Slots : Start(p)
    \/ \E p \in Slots : FetchContent(p)
    \/ \E p \in Slots : Generate(p)
    \/ \E p \in Slots : Parse(p)
    \/ \E p \in Slots : CheckUsed(p)
    \/ \E p \in Slots : StoreUsedQuestion(p)
    \/ \E p \in Slots : StoreQuestion(p)
    \/ \E p \in Slots : FilterReturn(p)
    \/ \E p \in Slots : Ask(p)
    \/ \E p \in Slots : StoreScore(p)
    \/ \E p \in Slots : Kill(p)

SpecCrash == Init /\ [][NextCrash]_vars

-----------------------------------------------------------------------------
(* Two runs of the filter loop side by side; each table read or write is atomic *)

ConcStems == {"S1", "S2"}

MaxConcPool == 2    \* candidates in each of the two pools

\* The parsed lists of the texts made of well-formed blocks.
ConcPools ==
    {ParseQuestions(t).questions :
        t \in UNION {[1..n -> {Block(no, st, "ok") : no \in 1..n, st \in ConcStems}] :
                        n \in 0..MaxConcPool}}

\* The run's state when it enters the for loop.
AtLoop(run, r, n, pool) ==
    [Idle EXCEPT !.pc = LoopHead(pool, 1, <<>>, n), !.run = run, !.resume_id = r,
                 !.skill = "Algorithms", !.num_q = n,
                 !.content = GetContentForSkill("Algorithms"), !.prompt_n = n * 2,
                 !.generated = TRUE, !.parsed = pool, !.i = 1, !.q_no = 1]

InitConc ==
    /\ \E r2 \in ResumeIds, n1, n2 \in 1..MaxN, pool1, pool2 \in ConcPools :
          sess = (1 :> AtLoop(1, 1, n1, pool1)) @@ (2 :> AtLoop(2, r2, n2, pool2))
    /\ resume_history = EmptyBag
    /\ quiz_questions = {}
    /\ quiz_attempts = <<>>
    /\ runs = 2
    /\ overlap = OverlapNow(sess)
    /\ ptext = <<>>
    /\ pres4 = [done |-> FALSE]
    /\ pres3 = [done |-> FALSE]
    /\ v3 = [pc |-> "off"]

NextConc ==
    \/ \E p \in Slots : CheckUsed(p)
    \/ \E p \in Slots : StoreUsedQuestion(p)
    \/ \E p \in Slots : StoreQuestion(p)
    \/ \E p \in Slots : FilterReturn(p)

SpecConc == InitConc /\ [][NextConc]_vars

-----------------------------------------------------------------------------
(* QGtestrun3.py: main() and generate_quiz *)

SessUnchanged ==
    UNCHANGED <<sess, resume_history, quiz_attempts, runs, overlap, ptext, pres4, pres3>>

NoContent(skill) == "No content found for skill: " \o skill

V3Created(skill) ==
    [pc |-> "created", skill |-> skill, content |-> "", generated |-> FALSE,
     quiz_output |-> [kind |-> "none"], parsed_questions |-> <<>>, j |-> 0]

\* generate_quiz, lines 155-164: without content the message is returned and
\* the model is not called.
GenerateQuiz ==
    /\ v3.pc = "created"
    /\ LET content == GetContentForSkill(v3.skill)
       IN IF content = ""
          THEN v3' = [v3 EXCEPT !.content = content,
                                !.quiz_output = [kind |-> "msg", val |-> NoContent(v3.skill)],
                                !.pc = "returned"]
          ELSE \E t \in GenTexts :
                  v3' = [v3 EXCEPT !.content = content,
                                   !.generated = TRUE,
                                   !.quiz_output = [kind |-> "text", val |-> t],
                                   !.pc = "returned"]
    /\ UNCHANGED quiz_questions
    /\ SessUnchanged

\* The blocks of what generate_quiz returned: the message holds no Q<digits>. marker.
OutputText(out) == IF out.kind = "text" THEN out.val ELSE <<>>

\* main, lines 193-197
ParseOutput ==
    /\ v3.pc = "returned"
    /\ LET parsed == ParseQuizOutput(OutputText(v3.quiz_output))
       IN v3' = [v3 EXCEPT !.parsed_questions = parsed,
                           !.j = 1,
                           !.pc = IF parsed = <<>> THEN "parse_failed" ELSE "saving"]
    /\ UNCHANGED quiz_questions
    /\ SessUnchanged

\* The row Database.save_question inserts.
SavedRow(q, skill) ==
    [run |-> 0, resume_id |-> 0, question_no |-> q.question_no, skill |-> skill,
     mode |-> Level, question |-> q.question, correct |-> q.answer]

\* main, lines 199-202
SaveQuestion ==
    /\ v3.pc = "saving"
    /\ quiz_questions' = quiz_questions \cup {SavedRow(v3.parsed_questions[v3.j], v3.skill)}
    /\ v3' = [v3 EXCEPT !.j = v3.j + 1,
                        !.pc = IF v3.j + 1 > Len(v3.parsed_questions)
                               THEN "done" ELSE "saving"]
    /\ SessUnchanged

\* Either program is started with any skill; QGtestrun4 runs up to its parser.
InitGen ==
    /\ \/ /\ \E sk \in Skills : v3 = V3Created(sk)
          /\ sess = [p \in {1} |-> Idle]
          /\ runs = 0
       \/ /\ v3 = [pc |-> "off"]
          /\ \E r \in ResumeIds, sk \in Skills, n \in 1..MaxN :
                sess = [p \in {1} |->
                          [Idle EXCEPT !.pc = "created", !.run = 1, !.resume_id = r,
                                       !.skill = sk, !.num_q = n]]
          /\ runs = 1
    /\ resume_history = EmptyBag
    /\ quiz_questions = {}
    /\ quiz_attempts = <<>>
    /\ overlap = [r \in ResumeIds |-> FALSE]
    /\ ptext = <<>>
    /\ pres4 = [done |-> FALSE]
    /\ pres3 = [done |-> FALSE]

NextGen ==
    \/ GenerateQuiz
    \/ ParseOutput
    \/ SaveQuestion
    \/ FetchContent(1)
    \/ Generate(1)
    \/ Parse(1)

SpecGen == InitGen /\ [][NextGen]_vars

-----------------------------------------------------------------------------
(* The two parsers on one raw text *)

StemAt(no) == "S" \o ToString(no)

\* Texts of at most MaxBlocks blocks Q1, Q2, ..., each of any shape.
ParseTexts ==
    UNION {{[no \in 1..n |-> Block(no, StemAt(no), sh[no])] : sh \in [1..n -> Shapes]} :
              n \in 0..MaxBlocks}

RunParseQuestions ==
    /\ ~pres4.done
    /\ pres4' = [done |-> TRUE, out |-> ParseQuestions(ptext)]
    /\ UNCHANGED <<sess, resume_history, quiz_questions, quiz_attempts, runs, overlap,
                   ptext, pres3, v3>>

RunParseQuizOutput ==
    /\ ~pres3.done
    /\ pres3' = [done |-> TRUE, out |-> ParseQuizOutput(ptext)]
    /\ UNCHANGED <<sess, resume_history, quiz_questions, quiz_attempts, runs, overlap,
                   ptext, pres4, v3>>

InitParse ==
    /\ ptext \in ParseTexts
    /\ pres4 = [done |-> FALSE]
    /\ pres3 = [done |-> FALSE]
    /\ sess = [p \in {1} |-> Idle]
    /\ resume_history = EmptyBag
    /\ quiz_questions = {}
    /\ quiz_attempts = <<>>
    /\ runs = 0
    /\ overlap = [r \in ResumeIds |-> FALSE]
    /\ v3 = [pc |-> "off"]

NextParse == RunParseQuestions \/ RunParseQuizOutput

SpecParse == InitParse /\ [][NextParse]_vars

-----------------------------------------------------------------------------
(* Properties *)

\* The rows of quiz_questions written by the run.
RunRows(run) == {r \in quiz_questions : r.run = run}

StemsOf(qlist) == [k \in 1..Len(qlist) |-> qlist[k].question]

Range(f) == {f[k] : k \in DOMAIN f}

Returned(s) == s.qs.kind # "none"

\* The stems of the pool that the history did not hold when the run started.
NewStems(s) == Range(StemsOf(s.parsed)) \ s.hist0

\* Every acceptance made so far: the stored questions, and the questions the
\* runs in progress have appended to final_qs.
AcceptEvents ==
    {[run |-> r.run, resume_id |-> r.resume_id, question_no |-> r.question_no,
      question |-> r.question] : r \in {x \in quiz_questions : x.run > 0}}
    \cup UNION {{[run |-> sess[p].run, resume_id |-> sess[p].resume_id,
                  question_no |-> sess[p].final_qs[k].question_no,
                  question |-> sess[p].final_qs[k].question] :
                    k \in 1..Len(sess[p].final_qs)} : p \in Slots}

\* Some stem has been accepted twice for the resume_id.
AcceptedTwice(r) ==
    \E e1, e2 \in AcceptEvents :
        /\ e1 # e2
        /\ e1.resume_id = r /\ e2.resume_id = r
        /\ e1.question = e2.question

RECURSIVE Greedy(_, _, _, _)
\* The first n stems of the pool, from position pos on, that are not in seen
\* and differ from each other, and the last position looked at to find them.
Greedy(pool, seen, n, pos) ==
    IF n = 0 THEN [stems |-> <<>>, examined |-> pos - 1]
    ELSE IF pos > Len(pool) THEN [stems |-> <<>>, examined |-> Len(pool)]
    ELSE IF pool[pos].question \in seen THEN Greedy(pool, seen, n, pos + 1)
    ELSE LET rest == Greedy(pool, seen \cup {pool[pos].question}, n - 1, pos + 1)
         IN [stems |-> <<pool[pos].question>> \o rest.stems,
             examined |-> rest.examined]

\* C1: with one run at a time, no stem is accepted twice for one resume_id; a
\* stem is accepted only if the history did not hold it, and every accepted
\* stem is in the history when the next candidate is examined.
C1_NoRepeatedStem ==
    /\ \A r \in ResumeIds : ~AcceptedTwice(r)
    /\ \A p \in Slots :
          LET s == sess[p]
          IN /\ Range(StemsOf(s.final_qs)) \cap s.hist0 = {}
             /\ s.pc \in {"check", "filter_done"} =>
                   \A k \in 1..Len(s.final_qs) :
                       QuestionUsedBefore(s.resume_id, s.final_qs[k].question)

\* A run has turned down one stem accepted by an earlier run and one stem it
\* accepted itself.
C1_Witness ==
    \E p \in Slots :
        LET s == sess[p]
        IN \E a, b \in Range(s.rejected) :
              /\ s.parsed[a].question \in s.hist0
              /\ s.parsed[b].question \in Range(StemsOf(s.final_qs))

\* C2: when fewer than num_questions stems of the pool are new, the call
\* returns the shortfall message; it has accepted each new stem once, and each
\* accepted question is in quiz_questions and in resume_history.
C2_Insufficient ==
    \A p \in Slots :
        LET s == sess[p]
        IN (Returned(s) /\ Cardinality(NewStems(s)) < s.num_q) =>
              /\ s.qs = [kind |-> "str", val |-> NotEnough]
              /\ Len(s.final_qs) = Cardinality(NewStems(s))
              /\ Range(StemsOf(s.final_qs)) = NewStems(s)
              /\ Len(s.final_qs) <= s.num_q
              /\ Cardinality(RunRows(s.run)) = Len(s.final_qs)
              /\ \A k \in 1..Len(s.final_qs) :
                    /\ QuestionRow(s, s.final_qs[k]) \in quiz_questions
                    /\ QuestionUsedBefore(s.resume_id, s.final_qs[k].question)

\* A run of two requested questions reported the shortfall after storing one,
\* having turned down a repeat.
C2_Witness ==
    \E p \in Slots :
        LET s == sess[p]
        IN /\ s.qs.kind = "str"
           /\ s.num_q = 2
           /\ Len(s.final_qs) = 1
           /\ s.rejected # <<>>
           /\ Cardinality(RunRows(s.run)) = 1

\* C3: after the shortfall message the run asks nothing, stores no attempt,
\* and does not end in an exception.
C3_InsufficientIsTerminal ==
    \A p \in Slots :
        LET s == sess[p]
        IN s.qs.kind = "str" =>
              /\ s.answers = <<>>
              /\ \A k \in 1..Len(quiz_attempts) : quiz_attempts[k].run # s.run
              /\ s.pc # "crashed"

\* C4: when the skill has no content, neither generate_quiz nor
\* generate_unique_questions calls the model, nothing is parsed or stored, and
\* the caller gets the no-content message.
C4_NoContentNoGeneration ==
    /\ (v3.pc \notin {"off", "created"} /\ v3.content = "") =>
          /\ ~v3.generated
          /\ v3.quiz_output = [kind |-> "msg", val |-> NoContent(v3.skill)]
    /\ \A p \in Slots :
          LET s == sess[p]
          IN (s.pc \notin {"idle", "created"} /\ s.content = "") =>
                /\ ~s.generated
                /\ s.parsed = <<>>
                /\ RunRows(s.run) = {}

\* C5: on success the returned list is the first num_questions new and
\* distinct stems of the pool, in pool order, and nothing after the last
\* accepted candidate was examined, recorded or stored.
C5_FirstNInOrder ==
    \A p \in Slots :
        LET s == sess[p]
            g == Greedy(s.parsed, s.hist0, s.num_q, 1)
        IN s.qs.kind = "list" =>
              /\ StemsOf(s.qs.val) = g.stems
              /\ Len(s.qs.val) = s.num_q
              /\ s.i - 1 = g.examined
              /\ Len(s.rejected) + Len(s.final_qs) = g.examined
              /\ Cardinality(RunRows(s.run)) = s.num_q
              /\ UsedQuestions(s.resume_id) = s.hist0 \cup Range(g.stems)

\* A successful run that turned a candidate down and left candidates unexamined.
C5_Witness ==
    \E p \in Slots :
        LET s == sess[p]
        IN /\ s.qs.kind = "list"
           /\ s.rejected # <<>>
           /\ s.hist0 # {}
           /\ s.i <= Len(s.parsed)

\* C6: the questions a run has accepted are numbered 1..K in acceptance order,
\* and its stored rows carry those numbers, at every point of the scan.
C6_DisplayNumbers ==
    \A p \in Slots :
        LET s == sess[p]
            rows == RunRows(s.run)
        IN s.run > 0 =>
              /\ \A k \in 1..Len(s.final_qs) : s.final_qs[k].question_no = k
              /\ {r.question_no : r \in rows} = 1..Cardinality(rows)
              /\ Cardinality(rows) \in {Len(s.final_qs), Len(s.final_qs) - 1}
              /\ \A r \in rows :
                    /\ r.question_no <= Len(s.final_qs)
                    /\ r.question = s.final_qs[r.question_no].question

\* A stored question whose number differs from its Q<digits> number in the
\* text, a rejected candidate standing before it.
C6_Witness ==
    \E p \in Slots :
        LET s == sess[p]
        IN \E r \in RunRows(s.run), pos \in 1..Len(s.parsed) :
              /\ s.parsed[pos].question = r.question
              /\ pos \notin Range(s.rejected)
              /\ s.text[pos].no # r.question_no
              /\ \E a \in Range(s.rejected) : a < pos

\* The block has a stem, the four options in order and an answer letter A-D.
WellFormed(b) ==
    /\ Len(b.lines) = 6
    /\ b.lines[1].tag = "txt" /\ b.lines[1].val # ""
    /\ \A k \in 1..4 : b.lines[k + 1].tag = OptTags[k]
    /\ b.lines[6].tag = "Answer:" /\ b.lines[6].val \in Letters

\* The fields of a well-formed block.
Fields(b) ==
    [question |-> b.lines[1].val,
     A |-> b.lines[2].val, B |-> b.lines[3].val,
     C |-> b.lines[4].val, D |-> b.lines[5].val,
     correct |-> b.lines[6].val]

RECURSIVE WellFormedFields(_)
\* The fields of the well-formed blocks of a text, in order of appearance.
WellFormedFields(text) ==
    IF text = <<>> THEN <<>>
    ELSE (IF WellFormed(Head(text)) THEN <<Fields(Head(text))>> ELSE <<>>)
         \o WellFormedFields(Tail(text))

\* A parse_quiz_output record without its question_no, answer named correct.
Fields3(q) ==
    [question |-> q.question, A |-> q.A, B |-> q.B, C |-> q.C, D |-> q.D,
     correct |-> q.answer]

\* C7: neither parser raises, and each returns exactly the well-formed blocks
\* of the text, in order, with their own fields.
C7_ParserContract ==
    /\ pres4.done =>
          /\ ~pres4.out.raised
          /\ pres4.out.questions = WellFormedFields(ptext)
    /\ pres3.done =>
          [k \in 1..Len(pres3.out) |-> Fields3(pres3.out[k])] = WellFormedFields(ptext)

\* The answer typed equals the stored letter, letter case ignored.
SameLetter(inp, q) == Str(Upper(Strip(inp))) = UpperChar(q.correct)

\* C8: a complete run has stored one attempt row, whose correct_answers is the
\* number of questions answered with the stored letter, letter case ignored.
C8_AttemptRecord ==
    \A p \in Slots :
        LET s == sess[p]
            mine == {k \in 1..Len(quiz_attempts) : quiz_attempts[k].run = s.run}
        IN s.pc = "complete" =>
              /\ Cardinality(mine) = 1
              /\ \A k \in mine :
                    /\ quiz_attempts[k].correct_answers =
                          Cardinality({j \in 1..Len(s.qs.val) :
                                          SameLetter(s.answers[j], s.qs.val[j])})
                    /\ quiz_attempts[k].correct_answers >= 0
                    /\ quiz_attempts[k].correct_answers <= quiz_attempts[k].total_questions

\* C9: every stored question of a run has its pair in resume_history, also
\* when the run is interrupted, and no stem is stored twice for one resume_id.
C9_WriteThrough ==
    /\ \A r \in quiz_questions :
          r.run > 0 => QuestionUsedBefore(r.resume_id, r.question)
    /\ \A r1, r2 \in quiz_questions :
          (r1.run > 0 /\ r2.run > 0 /\ r1.resume_id = r2.resume_id
              /\ r1.question = r2.question) => r1 = r2

\* The run after an interrupted one has turned down a stem the interrupted
\* run stored.
C9_Witness ==
    \E p \in Slots :
        LET s == sess[p]
        IN /\ s.prev_error = "killed"
           /\ \E a \in Range(s.rejected), r \in quiz_questions :
                 /\ r.run > 0 /\ r.run < s.run
                 /\ r.resume_id = s.resume_id
                 /\ r.question = s.parsed[a].question

\* C10: a stem is accepted twice for a resume_id only if two runs for that
\* resume_id have been active together.
C10_RaceOnlySameExaminee ==
    \A r \in ResumeIds : AcceptedTwice(r) => overlap[r]

\* Two runs for one resume_id have both stored the same stem.
C10_Witness ==
    \E r1, r2 \in quiz_questions :
        /\ r1.run # r2.run
        /\ r1.resume_id = r2.resume_id
        /\ r1.question = r2.question
        /\ overlap[r1.resume_id]

====
